---- MODULE Spec2Model ----
(***************************************************************************)
(* sshdol: a remote directory tree seen as a key-value mapping.           *)
(*                                                                         *)
(* Strings (keys, paths, names) are sequences of one-character strings,    *)
(* so that normalize_path, split_path and the depth count are computed     *)
(* character by character as src/sshdol/base.py computes them.  Byte       *)
(* strings are sequences of byte values, texts sequences of code points.   *)
(* An optional value (max_levels, encoding) is <<>> for None and <<x>>     *)
(* for the value x.                                                        *)
(*                                                                         *)
(* The remote tree `fs` maps every existing path (a sequence of entry      *)
(* names from the login directory) to a directory or to a file with its    *)
(* bytes.  A remote request fails for the reason the remote file system    *)
(* gives (missing path, wrong type, ...) or because the node's session     *)
(* fails on requests of its kind: the field `down` of a node is the set of *)
(* those kinds, empty on a healthy session.                                *)
(***************************************************************************)
EXTENDS Integers, Sequences, FiniteSets, TLC

VARIABLES fs, pc, last

vars == <<fs, pc, last>>

None == <<>>

Some(x) == <<x>>

(***************************************************************************)
(* Bounds of the model.                                                    *)
(***************************************************************************)
\* max_levels is drawn from None and 0..MaxLevelsBound
MaxLevelsBound == 1

\* the paths given to normalize_path on its own have at most MaxPathLen characters
MaxPathLen == 3

(***************************************************************************)
(* Strings.                                                                *)
(***************************************************************************)
SLASH == "/"

BACKSLASH == "\\"

DOT == "."

EndsWith(s, ch) == Len(s) > 0 /\ s[Len(s)] = ch

Count(s, ch) == Cardinality({i \in 1..Len(s) : s[i] = ch})

HasChar(s, ch) == \E i \in 1..Len(s) : s[i] = ch

Replace(s, from, to) == [i \in 1..Len(s) |-> IF s[i] = from THEN to ELSE s[i]]

normalize_path(path) ==
    IF path = <<>> \/ path = <<DOT>>
    THEN <<>>
    ELSE LET p == IF EndsWith(path, SLASH) THEN SubSeq(path, 1, Len(path) - 1) ELSE path
         IN Replace(p, BACKSLASH, SLASH)

LastSlash(s) == CHOOSE i \in 1..Len(s) : s[i] = SLASH /\ \A j \in (i+1)..Len(s) : s[j] # SLASH

split_path(path) ==
    LET p == normalize_path(path)
    IN IF ~HasChar(p, SLASH)
       THEN <<<<>>, p>>
       ELSE <<SubSeq(p, 1, LastSlash(p) - 1), SubSeq(p, LastSlash(p) + 1, Len(p))>>

\* f"{a}/{b}"
JoinSlash(a, b) == a \o <<SLASH>> \o b

(***************************************************************************)
(* The remote side: how the server resolves a path string, and the file    *)
(* transfer and shell primitives the node calls.                           *)
(***************************************************************************)
RECURSIVE SplitFrom(_, _, _)
\* s.split("/") from position i on, cur being the segment read so far
SplitFrom(s, i, cur) ==
    IF i > Len(s) THEN <<cur>>
    ELSE IF s[i] = SLASH THEN <<cur>> \o SplitFrom(s, i + 1, <<>>)
    ELSE SplitFrom(s, i + 1, Append(cur, s[i]))

\* the entry names a path string walks through: empty and "." segments name nothing
Segs(s) == SelectSeq(SplitFrom(s, 1, <<>>), LAMBDA seg : seg # <<>> /\ seg # <<DOT>>)

IsHiddenName(name) == Len(name) > 0 /\ name[1] = DOT

\* the names a directory can hold, in the order the server lists them
AllNames == << <<DOT, "h">>, <<"a">>, <<"b">>, <<"c">> >>

Dir == [kind |-> "d", data |-> <<>>]

File(bytes) == [kind |-> "f", data |-> bytes]

Exists(tree, p) == p = <<>> \/ p \in DOMAIN tree

KindAt(tree, p) == IF p = <<>> THEN "d" ELSE IF p \in DOMAIN tree THEN tree[p].kind ELSE "none"

Parent(p) == SubSeq(p, 1, Len(p) - 1)

Children(tree, p) == SelectSeq(AllNames, LAMBDA n : Append(p, n) \in DOMAIN tree)

\* the directory the node's remote calls are relative to: rootdir when the
\* chdir / cd succeeds, the login directory otherwise
Base(cfg, tree) ==
    IF cfg.rootdir = <<DOT>> \/ KindAt(tree, Segs(cfg.rootdir)) # "d"
    THEN <<>>
    ELSE Segs(cfg.rootdir)

Abs(cfg, tree, s) == Base(cfg, tree) \o Segs(s)

\* what the server finds at the path string s: "d", "f", or "none"
RemoteKind(cfg, tree, s) ==
    LET p == Abs(cfg, tree, s)
        k == KindAt(tree, p)
    IN IF s = <<>> THEN "none"
       ELSE IF k = "f" /\ EndsWith(s, SLASH) THEN "none"
       ELSE k

\* the session of the node fails on requests of this kind
Down(cfg, request) == request \in cfg.down

\* sftp.stat(path): "d", "f", or "none" when the stat fails
Stat(cfg, tree, s) == IF Down(cfg, "stat") THEN "none" ELSE RemoteKind(cfg, tree, s)

_is_dir(cfg, tree, path) == Stat(cfg, tree, path) = "d"

\* the mutant: only files exist
_path_exists_files_only(cfg, tree, path) ==
    ~Down(cfg, "exec") /\ RemoteKind(cfg, tree, normalize_path(path)) = "f"

\* the remote [ -e path ] test; False when the command fails
_path_exists(cfg, tree, path) ==
    ~Down(cfg, "exec") /\ RemoteKind(cfg, tree, normalize_path(path)) # "none"

Put(tree, p, entry) == [q \in DOMAIN tree \cup {p} |-> IF q = p THEN entry ELSE tree[q]]

Drop(tree, p) == [q \in DOMAIN tree \ {p} |-> tree[q]]

\* the mutant: open for append
SftpWrite_append(cfg, tree, s, bytes) ==
    LET p == Abs(cfg, tree, s)
        old == IF KindAt(tree, p) = "f" THEN tree[p].data ELSE <<>>
    IN IF \/ Down(cfg, "write") \/ EndsWith(s, SLASH) \/ p = <<>>
          \/ KindAt(tree, Parent(p)) # "d" \/ KindAt(tree, p) = "d"
       THEN [ok |-> FALSE, fs |-> tree]
       ELSE [ok |-> TRUE, fs |-> Put(tree, p, File(old \o bytes))]

\* with sftp.file(path, "wb") as f: f.write(v)
SftpWrite(cfg, tree, s, bytes) ==
    LET p == Abs(cfg, tree, s)
    IN IF \/ Down(cfg, "write") \/ EndsWith(s, SLASH) \/ p = <<>>
          \/ KindAt(tree, Parent(p)) # "d" \/ KindAt(tree, p) = "d"
       THEN [ok |-> FALSE, fs |-> tree]
       ELSE [ok |-> TRUE, fs |-> Put(tree, p, File(bytes))]

\* with sftp.file(path, "rb") as f: f.read()
SftpRead(cfg, tree, s) ==
    IF ~Down(cfg, "read") /\ RemoteKind(cfg, tree, s) = "f"
    THEN [ok |-> TRUE, data |-> tree[Abs(cfg, tree, s)].data]
    ELSE [ok |-> FALSE, data |-> <<>>]

\* sftp.mkdir(path)
SftpMkdir(cfg, tree, s) ==
    LET p == Abs(cfg, tree, s)
    IN IF Down(cfg, "mkdir") \/ p = <<>> \/ Exists(tree, p) \/ KindAt(tree, Parent(p)) # "d"
       THEN [ok |-> FALSE, fs |-> tree]
       ELSE [ok |-> TRUE, fs |-> Put(tree, p, Dir)]

\* sftp.rmdir(path): the server refuses a directory that holds any entry
SftpRmdir(cfg, tree, s) ==
    LET p == Abs(cfg, tree, s)
    IN IF Down(cfg, "rmdir") \/ p = <<>> \/ KindAt(tree, p) # "d" \/ Children(tree, p) # <<>>
       THEN [ok |-> FALSE, fs |-> tree]
       ELSE [ok |-> TRUE, fs |-> Drop(tree, p)]

\* sftp.remove(path)
SftpRemove(cfg, tree, s) ==
    IF ~Down(cfg, "remove") /\ RemoteKind(cfg, tree, s) = "f"
    THEN [ok |-> TRUE, fs |-> Drop(tree, Abs(cfg, tree, s))]
    ELSE [ok |-> FALSE, fs |-> tree]

\* sftp.listdir(path)
SftpListdir(cfg, tree, s) ==
    IF ~Down(cfg, "listdir") /\ RemoteKind(cfg, tree, s) = "d"
    THEN [ok |-> TRUE, names |-> Children(tree, Abs(cfg, tree, s))]
    ELSE [ok |-> FALSE, names |-> <<>>]

(***************************************************************************)
(* Values and the utf-8 codec.                                             *)
(***************************************************************************)
Bytes(b) == [t |-> "bytes", d |-> b]

Text(s) == [t |-> "str", d |-> s]

\* one code point below 2048 as utf-8
EncodeCp(cp) == IF cp < 128 THEN <<cp>> ELSE <<192 + (cp \div 64), 128 + (cp % 64)>>

RECURSIVE Utf8Encode(_)
Utf8Encode(s) == IF s = <<>> THEN <<>> ELSE EncodeCp(Head(s)) \o Utf8Encode(Tail(s))

RECURSIVE Utf8Decode(_)
\* [ok, s]: ok is FALSE when the bytes are not valid utf-8
Utf8Decode(b) ==
    IF b = <<>> THEN [ok |-> TRUE, s |-> <<>>]
    ELSE IF b[1] < 128
    THEN LET r == Utf8Decode(Tail(b)) IN [ok |-> r.ok, s |-> <<b[1]>> \o r.s]
    ELSE IF b[1] >= 194 /\ b[1] < 224 /\ Len(b) >= 2 /\ b[2] >= 128 /\ b[2] < 192
    THEN LET r == Utf8Decode(SubSeq(b, 3, Len(b)))
         IN [ok |-> r.ok, s |-> <<(b[1] - 192) * 64 + (b[2] - 128)>> \o r.s]
    ELSE [ok |-> FALSE, s |-> <<>>]

(***************************************************************************)
(* The node: its configuration and what an operation gives back.           *)
(***************************************************************************)
\* SshFilesReader.__init__'s keyword defaults, on a healthy session
DefaultConfig ==
    [cls |-> "SshFiles", rootdir |-> <<DOT>>, include_hidden |-> FALSE,
     include_directories |-> TRUE, dir_access |-> TRUE, encoding |-> None,
     max_levels |-> Some(0), create_dirs |-> FALSE, strict_contains |-> FALSE,
     down |-> {}]

\* self.__default_encoding read inside SshFilesReader: the attribute of
\* SshFilesReader itself, whatever the class of the node
default_encoding(cls) == None

\* self._encoding = encoding or self.__default_encoding
Encoding(cfg) == IF cfg.encoding # None THEN cfg.encoding ELSE default_encoding(cfg.cls)

NoErr == [exc |-> "", msg |-> "", args |-> <<>>]

KeyError(msg) == [exc |-> "KeyError", msg |-> msg, args |-> <<>>]

TypeError(msg) == [exc |-> "TypeError", msg |-> msg, args |-> <<>>]

\* "Path depth ({depth}) exceeds maximum allowed depth ({max_levels})"
DepthError(depth, limit) ==
    [exc |-> "KeyError", msg |-> "Path depth exceeds maximum allowed depth", args |-> <<depth, limit>>]

Ok(tree, value) == [ok |-> TRUE, err |-> NoErr, value |-> value, fs |-> tree]

Raise(tree, err) == [ok |-> FALSE, err |-> err, value |-> None, fs |-> tree]

\* the mutant: the limit itself is rejected too
_check_path_depth_off_by_one(cfg, path) ==
    LET np == normalize_path(path)
    IN IF cfg.max_levels = None \/ np = <<>> THEN NoErr
       ELSE IF Count(np, SLASH) >= cfg.max_levels[1]
       THEN DepthError(Count(np, SLASH), cfg.max_levels[1])
       ELSE NoErr

\* NoErr when the path is within max_levels, the KeyError it raises otherwise
_check_path_depth(cfg, path) ==
    LET np == normalize_path(path)
    IN IF cfg.max_levels = None \/ np = <<>> THEN NoErr
       ELSE IF Count(np, SLASH) > cfg.max_levels[1]
       THEN DepthError(Count(np, SLASH), cfg.max_levels[1])
       ELSE NoErr

\* the mutant: the root and the key are always joined with a "/"
ChildRoot_always_slash(cfg, path) ==
    IF cfg.rootdir = <<DOT>> THEN path ELSE JoinSlash(cfg.rootdir, path)

\* the root of the node a directory lookup returns
ChildRoot(cfg, path) ==
    IF cfg.rootdir = <<DOT>> THEN path
    ELSE IF ~EndsWith(cfg.rootdir, SLASH) THEN JoinSlash(cfg.rootdir, path)
    ELSE cfg.rootdir \o path

\* the mutant: the child is left the levels its parent has not used
ChildNode_remaining_levels(cfg, path) ==
    [t |-> "node",
     d |-> [cfg EXCEPT !.rootdir = ChildRoot(cfg, path),
                       !.max_levels = IF cfg.max_levels = None THEN None
                                      ELSE Some(cfg.max_levels[1] - Count(path, SLASH) - 1)]]

\* type(self)(**params, rootdir=new_rootdir)
ChildNode(cfg, path) == [t |-> "node", d |-> [cfg EXCEPT !.rootdir = ChildRoot(cfg, path)]]

\* read the file and decode it when an encoding is set
ReadValue(cfg, tree, path) ==
    LET r == SftpRead(cfg, tree, path)
        dec == Utf8Decode(r.data)
    IN IF ~r.ok THEN Raise(tree, KeyError("Error reading file"))
       ELSE IF Encoding(cfg) = None THEN Ok(tree, Bytes(r.data))
       ELSE IF dec.ok THEN Ok(tree, Text(dec.s))
       ELSE Raise(tree, KeyError("Error reading file"))

\* the mutant: the directory gate is never applied
getitem_no_dir_gate(cfg, tree, k) ==
    LET path == normalize_path(k)
        depth == _check_path_depth(cfg, path)
        is_dir == _is_dir(cfg, tree, path)
        dir_part == split_path(path)[1]
    IN IF depth # NoErr THEN Raise(tree, depth)
       ELSE IF HasChar(path, SLASH) /\ dir_part # <<>> /\ ~_path_exists(cfg, tree, dir_part)
       THEN Raise(tree, KeyError("Directory part does not exist"))
       ELSE IF is_dir THEN Ok(tree, ChildNode(cfg, path))
       ELSE ReadValue(cfg, tree, path)

\* SshFilesReader.__getitem__
getitem(cfg, tree, k) ==
    LET path == normalize_path(k)
        depth == _check_path_depth(cfg, path)
        is_dir == _is_dir(cfg, tree, path)
        dir_part == split_path(path)[1]
    IN IF depth # NoErr THEN Raise(tree, depth)
       ELSE IF is_dir /\ ~cfg.dir_access
       THEN Raise(tree, KeyError("Directory access is disabled"))
       ELSE IF HasChar(path, SLASH) /\ dir_part # <<>> /\ ~_path_exists(cfg, tree, dir_part)
       THEN Raise(tree, KeyError("Directory part does not exist"))
       ELSE IF is_dir THEN Ok(tree, ChildNode(cfg, path))
       ELSE ReadValue(cfg, tree, path)

\* SshFilesReader.__contains__
contains(cfg, tree, k) ==
    LET path == normalize_path(k)
        depth == _check_path_depth(cfg, path)
    IN IF cfg.max_levels # None /\ Count(path, SLASH) > cfg.max_levels[1]
       THEN IF cfg.strict_contains /\ depth # NoErr
            THEN Raise(tree, depth)
            ELSE Ok(tree, FALSE)
       ELSE Ok(tree, _path_exists(cfg, tree, path))

(***************************************************************************)
(* Listing and walking.                                                    *)
(***************************************************************************)
\* the mutant: hidden entries are never filtered
_list_directory_keep_hidden(cfg, tree, path) == SftpListdir(cfg, tree, path).names

\* SshFilesReader._list_directory: [] when the listing fails
_list_directory(cfg, tree, path) ==
    LET r == SftpListdir(cfg, tree, path)
    IN IF ~r.ok THEN <<>>
       ELSE IF ~cfg.include_hidden THEN SelectSeq(r.names, LAMBDA e : ~IsHiddenName(e))
       ELSE r.names

RECURSIVE PathStr(_)
\* the names of a path joined with "/"
PathStr(p) ==
    IF p = <<>> THEN <<>>
    ELSE IF Len(p) = 1 THEN p[1]
    ELSE JoinSlash(p[1], PathStr(Tail(p)))

TAB == "\t"

\* find's -printf '%y\t%P\n' for one entry, without the line end
FindLine(kind, p) == <<kind, TAB>> \o PathStr(p)

\* the mutant: one level too few
MaxDepthClause_short(max_levels) == IF max_levels = None THEN None ELSE Some(max_levels[1])

\* the mutant: one level too many
MaxDepthClause_deep(max_levels) == IF max_levels = None THEN None ELSE Some(max_levels[1] + 2)

\* -maxdepth {max_levels + 1}, or no clause
MaxDepthClause(max_levels) == IF max_levels = None THEN None ELSE Some(max_levels[1] + 1)

RECURSIVE FindDir(_, _, _, _, _)
RECURSIVE FindNames(_, _, _, _, _, _)
\* find below the directory rel (relative to the node's base): the lines of the
\* entries of rel and, through FindNames, of its subdirectories
FindDir(cfg, tree, rel, maxdepth, prune) ==
    IF maxdepth # None /\ Len(rel) + 1 > maxdepth[1] THEN <<>>
    ELSE FindNames(cfg, tree, rel, maxdepth, prune, Children(tree, Base(cfg, tree) \o rel))

\* the mutant: a hidden directory is not printed but find still descends into it
FindNames_descend_hidden(cfg, tree, rel, maxdepth, prune, names) ==
    IF names = <<>> THEN <<>>
    ELSE LET p == Append(rel, Head(names))
             kind == tree[Base(cfg, tree) \o p].kind
             here == (IF prune /\ IsHiddenName(Head(names)) THEN <<>>
                      ELSE <<FindLine(kind, p)>>)
                     \o (IF kind = "d" THEN FindDir(cfg, tree, p, maxdepth, prune) ELSE <<>>)
         IN here \o FindNames(cfg, tree, rel, maxdepth, prune, Tail(names))

FindNames(cfg, tree, rel, maxdepth, prune, names) ==
    IF names = <<>> THEN <<>>
    ELSE LET p == Append(rel, Head(names))
             kind == tree[Base(cfg, tree) \o p].kind
             here == IF prune /\ IsHiddenName(Head(names)) THEN <<>>
                     ELSE <<FindLine(kind, p)>>
                          \o (IF kind = "d" THEN FindDir(cfg, tree, p, maxdepth, prune) ELSE <<>>)
         IN here \o FindNames(cfg, tree, rel, maxdepth, prune, Tail(names))

FirstTab(line) == CHOOSE i \in 1..Len(line) : line[i] = TAB /\ \A j \in 1..(i-1) : line[j] # TAB

\* ftype, relpath = line.split("\t", 1); yield relpath, ftype == "d"
ParseLine(line) ==
    <<SubSeq(line, FirstTab(line) + 1, Len(line)), SubSeq(line, 1, FirstTab(line) - 1) = <<"d">>>>

\* SshFilesReader._walk_directory(".", 0, max_levels): a sequence of <<path, is_dir>>
_walk_directory(cfg, tree, max_levels) ==
    IF max_levels = Some(0)
    THEN LET entries == _list_directory(cfg, tree, <<DOT>>)
         IN [i \in 1..Len(entries) |-> <<entries[i], _is_dir(cfg, tree, entries[i])>>]
    ELSE IF Down(cfg, "exec") THEN <<>>
    ELSE LET lines == FindDir(cfg, tree, <<>>, MaxDepthClause(max_levels), ~cfg.include_hidden)
             good == SelectSeq(lines, LAMBDA l : l # <<>> /\ HasChar(l, TAB))
         IN [i \in 1..Len(good) |-> ParseLine(good[i])]

InSeq(x, s) == \E i \in 1..Len(s) : s[i] = x

RECURSIVE YieldUnseen(_, _)
\* the keys of `keys` in order, each yielded the first time it is met
YieldUnseen(keys, seen) ==
    IF keys = <<>> THEN <<>>
    ELSE IF Head(keys) \in seen THEN YieldUnseen(Tail(keys), seen)
    ELSE <<Head(keys)>> \o YieldUnseen(Tail(keys), seen \cup {Head(keys)})

\* the key __iter__ yields for one entry, <<>> standing for none
IterKey(cfg, path, is_dir) ==
    IF is_dir
    THEN IF cfg.include_directories THEN <<Append(path, SLASH)>> ELSE <<>>
    ELSE <<path>>

RECURSIVE Flatten(_)
Flatten(ss) == IF ss = <<>> THEN <<>> ELSE Head(ss) \o Flatten(Tail(ss))

\* the mutant: directories are yielded whatever include_directories says
iter_dirs_always(cfg, tree) ==
    LET walk == _walk_directory(cfg, tree, cfg.max_levels)
    IN YieldUnseen(Flatten([i \in 1..Len(walk) |->
           IF walk[i][2] THEN <<Append(walk[i][1], SLASH)>> ELSE <<walk[i][1]>>]), {})

\* SshFilesReader.__iter__: the sequence of keys it yields
iter(cfg, tree) ==
    IF cfg.max_levels = Some(0)
    THEN LET entries == _list_directory(cfg, tree, <<DOT>>)
         IN Flatten([i \in 1..Len(entries) |->
                IterKey(cfg, entries[i], _is_dir(cfg, tree, entries[i]))])
    ELSE LET walk == _walk_directory(cfg, tree, cfg.max_levels)
         IN YieldUnseen(Flatten([i \in 1..Len(walk) |->
                IterKey(cfg, walk[i][1], walk[i][2])]), {})

\* the mutant: directories are never counted
TypeClause_files_only(cfg, kind) == kind = "f"

\* \( -type f -o -type d \) when include_directories, -type f otherwise
TypeClause(cfg, kind) ==
    IF cfg.include_directories THEN kind \in {"f", "d"} ELSE kind = "f"

Digit(d) == <<"0", "1", "2", "3", "4", "5", "6", "7", "8", "9">>[d + 1]

RECURSIVE Decimal(_)
\* the decimal digits wc -l prints for a count
Decimal(n) == IF n < 10 THEN <<Digit(n)>> ELSE Append(Decimal(n \div 10), Digit(n % 10))

IsDigit(ch) == \E d \in 0..9 : Digit(d) = ch

DigitValue(ch) == CHOOSE d \in 0..9 : Digit(d) = ch

RECURSIVE IntOf(_)
\* int(out) for a string of digits
IntOf(out) ==
    IF out = <<>> THEN 0 ELSE IntOf(SubSeq(out, 1, Len(out) - 1)) * 10 + DigitValue(out[Len(out)])

\* SshFilesReader.__len__: the remote count, 0 when the output is not a number,
\* the number of keys __iter__ yields when the command fails
len(cfg, tree) ==
    LET lines == FindDir(cfg, tree, <<>>, MaxDepthClause(cfg.max_levels), ~cfg.include_hidden)
        printed == SelectSeq(lines, LAMBDA l : TypeClause(cfg, l[1]))
        out == Decimal(Len(printed))
    IN IF Down(cfg, "exec") THEN Len(iter(cfg, tree))
       ELSE IF out # <<>> /\ \A i \in 1..Len(out) : IsDigit(out[i]) THEN IntOf(out) ELSE 0

(***************************************************************************)
(* The remote requests an enumeration issues, in order.                    *)
(***************************************************************************)
Request(kind, arg) == [rq |-> kind, arg |-> arg]

\* _list_directory(path): self._sftp.listdir(path)
_list_directory_requests(path) == <<Request("listdir", path)>>

\* _is_dir(path): self._sftp.stat(path)
_is_dir_requests(path) == <<Request("stat", path)>>

RECURSIVE ListEachDirectory(_, _, _)
\* the mutant: every directory the walk meets is listed with a request of its own
ListEachDirectory(cfg, tree, rel) ==
    LET names == Children(tree, Base(cfg, tree) \o rel)
        dirs == SelectSeq(names, LAMBDA n : tree[Base(cfg, tree) \o Append(rel, n)].kind = "d")
    IN <<Request("listdir", IF rel = <<>> THEN <<DOT>> ELSE PathStr(rel))>>
       \o Flatten([i \in 1..Len(dirs) |-> ListEachDirectory(cfg, tree, Append(rel, dirs[i]))])

_walk_directory_requests_per_directory(cfg, tree, max_levels) ==
    ListEachDirectory(cfg, tree, <<>>)

\* _walk_directory: the one exec_command of the find command
_walk_directory_requests(cfg, tree, max_levels) ==
    <<Request("exec", <<"find">>)>>

\* __iter__: one listdir of "." and a stat for each entry it keeps at max_levels
\* 0, the requests of _walk_directory otherwise
iter_requests(cfg, tree) ==
    IF cfg.max_levels = Some(0)
    THEN LET entries == _list_directory(cfg, tree, <<DOT>>)
         IN _list_directory_requests(<<DOT>>)
            \o Flatten([i \in 1..Len(entries) |-> _is_dir_requests(entries[i])])
    ELSE _walk_directory_requests(cfg, tree, cfg.max_levels)

\* __len__: the one exec_command of the counting command, then the requests of
\* __iter__ when that command fails
len_requests(cfg, tree) ==
    <<Request("exec", <<"find", "wc">>)>>
    \o (IF Down(cfg, "exec") THEN iter_requests(cfg, tree) ELSE <<>>)

(***************************************************************************)
(* Writing, deleting, making directories.                                  *)
(***************************************************************************)
RECURSIVE _ensure_directory_exists(_, _, _)
\* the mutant: a missing directory is created whatever create_dirs says
_ensure_directory_exists_always(cfg, tree, dir_path) ==
    IF dir_path = <<>> \/ dir_path = <<DOT>> THEN [err |-> NoErr, fs |-> tree]
    ELSE IF Stat(cfg, tree, dir_path) = "d" THEN [err |-> NoErr, fs |-> tree]
    ELSE IF Stat(cfg, tree, dir_path) = "f"
    THEN [err |-> KeyError("Path exists but is not a directory"), fs |-> tree]
    ELSE LET parent_dir == split_path(dir_path)[1]
             up == IF parent_dir # <<>>
                   THEN _ensure_directory_exists(cfg, tree, parent_dir)
                   ELSE [err |-> NoErr, fs |-> tree]
             made == SftpMkdir(cfg, up.fs, dir_path)
         IN IF up.err # NoErr THEN up
            ELSE IF made.ok THEN [err |-> NoErr, fs |-> made.fs]
            ELSE [err |-> KeyError("Failed to create directory"), fs |-> up.fs]

\* SshFiles._ensure_directory_exists: [err, fs], err = NoErr when it returns True
_ensure_directory_exists(cfg, tree, dir_path) ==
    IF dir_path = <<>> \/ dir_path = <<DOT>> THEN [err |-> NoErr, fs |-> tree]
    ELSE IF Stat(cfg, tree, dir_path) = "d" THEN [err |-> NoErr, fs |-> tree]
    ELSE IF Stat(cfg, tree, dir_path) = "f"
    THEN [err |-> KeyError("Path exists but is not a directory"), fs |-> tree]
    ELSE IF ~cfg.create_dirs
    THEN [err |-> KeyError("Directory does not exist and create_dirs=False"), fs |-> tree]
    ELSE LET parent_dir == split_path(dir_path)[1]
             up == IF parent_dir # <<>>
                   THEN _ensure_directory_exists(cfg, tree, parent_dir)
                   ELSE [err |-> NoErr, fs |-> tree]
             made == SftpMkdir(cfg, up.fs, dir_path)
         IN IF up.err # NoErr THEN up
            ELSE IF made.ok THEN [err |-> NoErr, fs |-> made.fs]
            ELSE [err |-> KeyError("Failed to create directory"), fs |-> up.fs]

\* the mutant: a value of the other kind is coerced
ValueBytes_coerce(cfg, v) ==
    [err |-> NoErr, b |-> IF v.t = "str" THEN Utf8Encode(v.d) ELSE v.d]

\* the bytes __setitem__ writes for v, or the TypeError it raises
ValueBytes(cfg, v) ==
    IF Encoding(cfg) # None
    THEN IF v.t = "str" THEN [err |-> NoErr, b |-> Utf8Encode(v.d)]
         ELSE [err |-> TypeError("When encoding is set, value must be a string"), b |-> <<>>]
    ELSE IF v.t # "bytes"
         THEN [err |-> TypeError("When encoding is None, value must be bytes"), b |-> <<>>]
         ELSE [err |-> NoErr, b |-> v.d]

\* the mutant: the directory portion is never ensured
setitem_no_dirs(cfg, tree, k, v) ==
    LET path == normalize_path(k)
        depth == _check_path_depth(cfg, path)
        vb == ValueBytes(cfg, v)
        w == SftpWrite(cfg, tree, path, vb.b)
    IN IF depth # NoErr THEN Raise(tree, depth)
       ELSE IF vb.err # NoErr THEN Raise(tree, vb.err)
       ELSE IF w.ok THEN Ok(w.fs, None)
       ELSE Raise(tree, KeyError("Error writing to file"))

\* SshFiles.__setitem__
setitem(cfg, tree, k, v) ==
    LET path == normalize_path(k)
        depth == _check_path_depth(cfg, path)
        vb == ValueBytes(cfg, v)
        dir_part == split_path(path)[1]
        dirs == IF HasChar(path, SLASH) /\ dir_part # <<>>
                THEN _ensure_directory_exists(cfg, tree, dir_part)
                ELSE [err |-> NoErr, fs |-> tree]
        w == SftpWrite(cfg, dirs.fs, path, vb.b)
    IN IF depth # NoErr THEN Raise(tree, depth)
       ELSE IF vb.err # NoErr THEN Raise(tree, vb.err)
       ELSE IF dirs.err # NoErr THEN Raise(dirs.fs, dirs.err)
       ELSE IF w.ok THEN Ok(w.fs, None)
       ELSE Raise(dirs.fs, KeyError("Error writing to file"))

\* SshFiles.__delitem__
delitem(cfg, tree, k) ==
    LET path == normalize_path(k)
        rd == SftpRmdir(cfg, tree, path)
        rm == SftpRemove(cfg, tree, path)
    IN IF ~_path_exists(cfg, tree, path) THEN Raise(tree, KeyError("key"))
       ELSE IF _is_dir(cfg, tree, path)
       THEN IF _list_directory(cfg, tree, path) # <<>>
            THEN Raise(tree, KeyError("Cannot delete non-empty directory"))
            ELSE IF rd.ok THEN Ok(rd.fs, None)
            ELSE Raise(tree, KeyError("Error deleting"))
       ELSE IF rm.ok THEN Ok(rm.fs, None)
       ELSE Raise(tree, KeyError("Error deleting"))

\* the mutant: an existing directory is accepted whatever exist_ok says
mkdir_exist_ok_always(cfg, tree, dirpath, exist_ok) ==
    LET path == normalize_path(dirpath)
        dir_part == split_path(path)[1]
        dirs == IF dir_part # <<>>
                THEN _ensure_directory_exists(cfg, tree, dir_part)
                ELSE [err |-> NoErr, fs |-> tree]
        made == SftpMkdir(cfg, dirs.fs, path)
    IN IF _path_exists(cfg, tree, path)
       THEN IF _is_dir(cfg, tree, path)
            THEN getitem(cfg, tree, path)
            ELSE Raise(tree, KeyError("Path exists but is not a directory"))
       ELSE IF dirs.err # NoErr THEN Raise(dirs.fs, dirs.err)
       ELSE IF ~made.ok THEN Raise(dirs.fs, KeyError("Failed to create directory"))
       ELSE getitem(cfg, made.fs, path)

\* the mutant: the parent directories are never ensured
mkdir_no_parents(cfg, tree, dirpath, exist_ok) ==
    LET path == normalize_path(dirpath)
        made == SftpMkdir(cfg, tree, path)
    IN IF _path_exists(cfg, tree, path)
       THEN IF _is_dir(cfg, tree, path)
            THEN IF ~exist_ok THEN Raise(tree, KeyError("Directory already exists"))
                 ELSE getitem(cfg, tree, path)
            ELSE Raise(tree, KeyError("Path exists but is not a directory"))
       ELSE IF ~made.ok THEN Raise(tree, KeyError("Failed to create directory"))
       ELSE getitem(cfg, made.fs, path)

\* SshFiles.mkdir
mkdir(cfg, tree, dirpath, exist_ok) ==
    LET path == normalize_path(dirpath)
        dir_part == split_path(path)[1]
        dirs == IF dir_part # <<>>
                THEN _ensure_directory_exists(cfg, tree, dir_part)
                ELSE [err |-> NoErr, fs |-> tree]
        made == SftpMkdir(cfg, dirs.fs, path)
    IN IF _path_exists(cfg, tree, path)
       THEN IF _is_dir(cfg, tree, path)
            THEN IF ~exist_ok THEN Raise(tree, KeyError("Directory already exists"))
                 ELSE getitem(cfg, tree, path)
            ELSE Raise(tree, KeyError("Path exists but is not a directory"))
       ELSE IF dirs.err # NoErr THEN Raise(dirs.fs, dirs.err)
       ELSE IF ~made.ok THEN Raise(dirs.fs, KeyError("Failed to create directory"))
       ELSE getitem(cfg, made.fs, path)

(***************************************************************************)
(* Emptying a store, as the tests do before they start.                    *)
(***************************************************************************)
\* the code point of a character a key is made of
Ord(ch) ==
    CASE ch = DOT -> 46 [] ch = SLASH -> 47 [] ch = BACKSLASH -> 92
      [] ch = "a" -> 97 [] ch = "b" -> 98 [] ch = "c" -> 99 [] ch = "h" -> 104

RECURSIVE StrLess(_, _)
\* s < t as Python compares strings
StrLess(s, t) ==
    IF t = <<>> THEN FALSE
    ELSE IF s = <<>> THEN TRUE
    ELSE IF Head(s) # Head(t) THEN Ord(Head(s)) < Ord(Head(t))
    ELSE StrLess(Tail(s), Tail(t))

\* (k.count("/"), k) < (l.count("/"), l)
SortKeyLess(k, l) ==
    \/ Count(k, SLASH) < Count(l, SLASH)
    \/ Count(k, SLASH) = Count(l, SLASH) /\ StrLess(k, l)

RECURSIVE SortedDescending(_)
\* the keys of a set from the greatest sort key down
SortedDescending(keys) ==
    IF keys = {} THEN <<>>
    ELSE LET top == CHOOSE k \in keys : \A l \in keys \ {k} : SortKeyLess(l, k)
         IN <<top>> \o SortedDescending(keys \ {top})

\* sorted(keys, key=lambda k: (k.count("/"), k), reverse=True), the keys being
\* distinct
sort_keys_deepest_first(keys) == SortedDescending({keys[i] : i \in 1..Len(keys)})

RECURSIVE DeleteEach(_, _, _)
\* for k in keys: del store[k], up to the first delete that raises
DeleteEach(cfg, tree, keys) ==
    IF keys = <<>> THEN Ok(tree, None)
    ELSE LET r == delitem(cfg, tree, Head(keys))
         IN IF r.ok THEN DeleteEach(cfg, r.fs, Tail(keys)) ELSE r

\* empty_test_store on a store that passes its two safety conditions
empty_test_store(cfg, tree) ==
    DeleteEach(cfg, tree, sort_keys_deepest_first(iter(cfg, tree)))

(***************************************************************************)
(* The state machine: callers build nodes over the one remote tree and     *)
(* call them, one operation at a time; `last` is the call just made, with  *)
(* the tree it found (pre) and what it gave back (res).                    *)
(***************************************************************************)
\* "a", "a/", "a/b", "a/b/c", ".h", "a/.h", "a\b", "a//", "a/b//"
Keys ==
    { <<"a">>, <<"a", SLASH>>, <<"a", SLASH, "b">>, <<"a", SLASH, "b", SLASH, "c">>,
      <<DOT, "h">>, <<"a", SLASH, DOT, "h">>, <<"a", BACKSLASH, "b">>,
      <<"a", SLASH, SLASH>>, <<"a", SLASH, "b", SLASH, SLASH>> }

\* b"a", b"\xc3" (not utf-8 on its own), "é" (two bytes in utf-8)
Values == { Bytes(<<97>>), Bytes(<<195>>), Text(<<233>>) }

MaxLevels == {None} \cup {Some(n) : n \in 0..MaxLevelsBound}

Encodings == {None, Some("utf-8")}

\* the read-only and the read-write class
Classes == {"SshFilesReader", "SshFiles"}

\* the convenience classes for text, read-only and read-write
TextClasses == {"SshTextFilesReader", "SshTextFiles"}

\* roots other than ".": "a" and "a/"
Roots == { <<"a">>, <<"a", SLASH>> }

\* keys for a node rooted at a: "b", "b/", "b/c", "b//"
KeysBelow ==
    { <<"b">>, <<"b", SLASH>>, <<"b", SLASH, "c">>, <<"b", SLASH, SLASH>> }

NoCall ==
    [op |-> "none", cfg |-> DefaultConfig, key |-> <<>>, val |-> None, exist_ok |-> FALSE,
     pre |-> <<>>, res |-> Ok(<<>>, None)]

Call(op, cfg, key, val, exist_ok, res) ==
    /\ pc = "idle"
    /\ pc' = "done"
    /\ fs' = res.fs
    /\ last' = [op |-> op, cfg |-> cfg, key |-> key, val |-> val, exist_ok |-> exist_ok,
                pre |-> fs, res |-> res]

Init ==
    /\ fs = <<>>
    /\ pc = "idle"
    /\ last = NoCall

Lookup ==
    \E k \in Keys, ml \in MaxLevels, da \in BOOLEAN, enc \in Encodings, show \in BOOLEAN :
        LET cfg == [DefaultConfig EXCEPT !.max_levels = ml, !.dir_access = da,
                        !.encoding = enc, !.include_hidden = show,
                        !.include_directories = show]
        IN Call("lookup", cfg, k, None, FALSE, getitem(cfg, fs, k))

\* a lookup on a node of either class rooted below the login directory, such as
\* the node a directory lookup returned; a node cannot be built on a root that is
\* a file (the chdir fails with an error __init__ does not catch)
LookupFrom ==
    \E k \in KeysBelow, ml \in MaxLevels, da \in BOOLEAN, cls \in Classes, root \in Roots :
        LET cfg == [DefaultConfig EXCEPT !.cls = cls, !.rootdir = root,
                        !.max_levels = ml, !.dir_access = da]
        IN /\ KindAt(fs, Segs(root)) # "f"
           /\ Call("lookup_from", cfg, k, None, FALSE, getitem(cfg, fs, k))

Write ==
    \E k \in Keys, v \in Values, ml \in MaxLevels, enc \in Encodings, cd \in BOOLEAN :
        LET cfg == [DefaultConfig EXCEPT !.max_levels = ml, !.encoding = enc,
                        !.create_dirs = cd]
        IN Call("write", cfg, k, v, FALSE, setitem(cfg, fs, k, v))

Delete ==
    \E k \in Keys, ml \in MaxLevels, ih \in BOOLEAN :
        LET cfg == [DefaultConfig EXCEPT !.max_levels = ml, !.include_hidden = ih]
        IN Call("delete", cfg, k, None, FALSE, delitem(cfg, fs, k))

MakeDirectory ==
    \E k \in Keys, ml \in MaxLevels, cd \in BOOLEAN, da \in BOOLEAN, eo \in BOOLEAN :
        LET cfg == [DefaultConfig EXCEPT !.max_levels = ml, !.create_dirs = cd,
                        !.dir_access = da]
        IN Call("mkdir", cfg, k, None, eo, mkdir(cfg, fs, k, eo))

Contains ==
    \E k \in Keys, ml \in MaxLevels, sc \in BOOLEAN, da \in BOOLEAN, show \in BOOLEAN :
        LET cfg == [DefaultConfig EXCEPT !.max_levels = ml, !.strict_contains = sc,
                        !.dir_access = da, !.include_hidden = show,
                        !.include_directories = show]
        IN Call("contains", cfg, k, None, FALSE, contains(cfg, fs, k))

Iterate ==
    \E ml \in MaxLevels, ih \in BOOLEAN, idirs \in BOOLEAN, da \in BOOLEAN :
        LET cfg == [DefaultConfig EXCEPT !.max_levels = ml, !.include_hidden = ih,
                        !.include_directories = idirs, !.dir_access = da]
        IN Call("iterate", cfg, <<>>, None, FALSE, Ok(fs, iter(cfg, fs)))

\* len(node) on a node rooted at "." or below; a node cannot be built on a root
\* that is a file (the chdir fails with an error __init__ does not catch)
Length ==
    \E ml \in MaxLevels, ih \in BOOLEAN, idirs \in BOOLEAN, root \in {<<DOT>>} \cup Roots :
        LET cfg == [DefaultConfig EXCEPT !.rootdir = root, !.max_levels = ml,
                        !.include_hidden = ih, !.include_directories = idirs]
        IN /\ KindAt(fs, Segs(root)) # "f"
           /\ Call("length", cfg, <<>>, None, FALSE, Ok(fs, len(cfg, fs)))

\* a lookup on a node of a text class built without an encoding argument
LookupText ==
    \E k \in Keys, cls \in TextClasses :
        LET cfg == [DefaultConfig EXCEPT !.cls = cls, !.max_levels = None]
        IN Call("lookup_text", cfg, k, None, FALSE, getitem(cfg, fs, k))

\* a write on a SshTextFiles node built without an encoding argument
WriteText ==
    \E k \in Keys, v \in Values :
        LET cfg == [DefaultConfig EXCEPT !.cls = "SshTextFiles", !.max_levels = None]
        IN Call("write_text", cfg, k, v, FALSE, setitem(cfg, fs, k, v))

\* empty_test_store(s) on a node of unlimited depth
EmptyTestStore ==
    \E ih \in BOOLEAN :
        LET cfg == [DefaultConfig EXCEPT !.max_levels = None, !.include_hidden = ih,
                        !.create_dirs = TRUE]
        IN Call("empty", cfg, <<>>, None, FALSE, empty_test_store(cfg, fs))

\* "a", "a/b": directories to descend into
KeysOuter == { <<"a">>, <<"a", SLASH, "b">> }

\* "b", "c", "b/c": keys for the node the first lookup returns
KeysInner == { <<"b">>, <<"c">>, <<"b", SLASH, "c">> }

\* node[d][j]: a lookup on the node that the lookup of d returned
LookupChained ==
    \E d \in KeysOuter, j \in KeysInner, ml \in MaxLevels, enc \in Encodings :
        LET cfg == [DefaultConfig EXCEPT !.max_levels = ml, !.encoding = enc]
            outer == getitem(cfg, fs, d)
        IN /\ pc = "idle"
           /\ outer.ok /\ outer.value.t = "node"
           /\ Call("lookup_chained", cfg, <<d, j>>, None, FALSE,
                   getitem(outer.value.d, fs, j))

\* the caller takes the result and is free to call again
Return ==
    /\ pc = "done"
    /\ pc' = "idle"
    /\ last' = NoCall
    /\ UNCHANGED fs

Next == Lookup \/ LookupFrom \/ Write \/ Delete \/ MakeDirectory \/ Contains \/ Iterate \/ Length
           \/ EmptyTestStore \/ LookupText \/ WriteText
           \/ LookupChained \/ Return

Spec == Init /\ [][Next]_vars

(***************************************************************************)
(* Calls over the trees a few plain writes and mkdirs build, hidden         *)
(* directories with entries beneath them included: iteration and length,   *)
(* and calls on a node whose session fails on one kind of request.         *)
(***************************************************************************)
\* "a", "a/b", ".h", ".h/a", "a/.h"
KeysSeed ==
    { <<"a">>, <<"a", SLASH, "b">>, <<DOT, "h">>, <<DOT, "h", SLASH, "a">>,
      <<"a", SLASH, DOT, "h">> }

\* SshFiles(max_levels=None, create_dirs=True)
SeedConfig == [DefaultConfig EXCEPT !.max_levels = None, !.create_dirs = TRUE]

\* a write of b"a"
SeedFile ==
    \E k \in KeysSeed :
        Call("write", SeedConfig, k, Bytes(<<97>>), FALSE,
             setitem(SeedConfig, fs, k, Bytes(<<97>>)))

\* a mkdir with exist_ok
SeedDirectory ==
    \E k \in KeysSeed :
        Call("mkdir", SeedConfig, k, None, TRUE, mkdir(SeedConfig, fs, k, TRUE))

\* the kinds of request a session can fail on: sftp stat, listdir, read, write,
\* mkdir, rmdir and remove, and exec_command
Requests == {"stat", "listdir", "read", "write", "mkdir", "rmdir", "remove", "exec"}

\* "a", "a/b"
KeysDown == { <<"a">>, <<"a", SLASH, "b">> }

\* a lookup on a node whose session fails on one kind of request the lookup makes
LookupDown ==
    \E k \in KeysDown, rq \in {"stat", "exec", "read"} :
        LET cfg == [DefaultConfig EXCEPT !.max_levels = None, !.down = {rq}]
        IN Call("lookup_down", cfg, k, None, FALSE, getitem(cfg, fs, k))

\* a write on a node whose session fails on one kind of request the write makes
WriteDown ==
    \E k \in KeysDown, cd \in BOOLEAN, rq \in {"stat", "mkdir", "write"} :
        LET cfg == [DefaultConfig EXCEPT !.max_levels = None, !.create_dirs = cd,
                        !.down = {rq}]
        IN Call("write_down", cfg, k, Bytes(<<97>>), FALSE, setitem(cfg, fs, k, Bytes(<<97>>)))

\* a delete on a node whose session fails on one kind of request the delete makes
DeleteDown ==
    \E k \in KeysDown, rq \in {"exec", "stat", "listdir", "rmdir", "remove"} :
        LET cfg == [DefaultConfig EXCEPT !.max_levels = None, !.down = {rq}]
        IN Call("delete_down", cfg, k, None, FALSE, delitem(cfg, fs, k))

\* a mkdir on a node whose session fails on one kind of request the mkdir makes
MakeDirectoryDown ==
    \E k \in KeysDown, cd \in BOOLEAN, eo \in BOOLEAN, rq \in {"exec", "stat", "mkdir"} :
        LET cfg == [DefaultConfig EXCEPT !.max_levels = None, !.create_dirs = cd,
                        !.down = {rq}]
        IN Call("mkdir_down", cfg, k, None, eo, mkdir(cfg, fs, k, eo))

\* an iteration on a node whose session fails on one kind of request it makes
IterateDown ==
    \E ml \in MaxLevels, rq \in {"listdir", "stat", "exec"} :
        LET cfg == [DefaultConfig EXCEPT !.max_levels = ml, !.down = {rq}]
        IN Call("iterate_down", cfg, <<>>, None, FALSE, Ok(fs, iter(cfg, fs)))

SeedNext == SeedFile \/ SeedDirectory \/ Delete \/ Iterate \/ Length
               \/ LookupDown \/ WriteDown \/ DeleteDown \/ MakeDirectoryDown \/ IterateDown
               \/ Return

SeedSpec == Init /\ [][SeedNext]_vars

(***************************************************************************)
(* normalize_path on its own: every short string over the characters that  *)
(* matter to it is normalized once.                                        *)
(***************************************************************************)
PathChars == {"a", DOT, SLASH, BACKSLASH}

Paths == UNION {[1..n -> PathChars] : n \in 0..MaxPathLen}

NormalizeInit ==
    /\ fs = <<>>
    /\ pc = "idle"
    /\ \E p \in Paths : last = [NoCall EXCEPT !.key = p]

Normalize ==
    /\ pc = "idle"
    /\ pc' = "done"
    /\ last' = [last EXCEPT !.op = "normalize", !.res = Ok(fs, normalize_path(last.key))]
    /\ UNCHANGED fs

NormalizeNext == Normalize

NormalizeSpec == NormalizeInit /\ [][NormalizeNext]_vars

(***************************************************************************)
(* Two nodes on independent sessions, each making one call on the same     *)
(* remote tree.  A call is a sequence of remote requests, and the requests *)
(* of the two calls interleave in every order.  Here pc and last hold one  *)
(* entry per node: the position of its call, and the call's locals (path,  *)
(* the bytes to write, ens: the directories _ensure_directory_exists has   *)
(* been entered for, innermost last) with its result.                      *)
(***************************************************************************)
Nodes == {1, 2}

RaceConfig == [DefaultConfig EXCEPT !.max_levels = None, !.create_dirs = TRUE]

\* mkdir("a"), mkdir("a/b"), s["a/b"] = b"a", s["a/b"] = b"bc", s["a/c"] = b"a"
RaceCalls ==
    { [op |-> "mkdir", key |-> <<"a">>, val |-> <<>>],
      [op |-> "mkdir", key |-> <<"a", SLASH, "b">>, val |-> <<>>],
      [op |-> "write", key |-> <<"a", SLASH, "b">>, val |-> <<97>>],
      [op |-> "write", key |-> <<"a", SLASH, "b">>, val |-> <<98, 99>>],
      [op |-> "write", key |-> <<"a", SLASH, "c">>, val |-> <<97>>] }

\* sftp.file(path, "wb"): the open creates the file or truncates it
SftpOpenW(cfg, tree, s) == SftpWrite(cfg, tree, s, <<>>)

\* f.write(v) flushed on leaving the with block: the bytes go to offset 0 of the
\* file the handle was opened on, over what the file holds by then
SftpFlush(cfg, tree, s, bytes) ==
    LET q == Abs(cfg, tree, s)
        old == tree[q].data
    IN Put(tree, q, File(bytes \o SubSeq(old, Len(bytes) + 1, Len(old))))

RaceInit ==
    /\ fs = <<>>
    /\ pc = [n \in Nodes |-> "start"]
    /\ \E c \in [Nodes -> RaceCalls] :
          last = [n \in Nodes |->
                     [op |-> c[n].op, path |-> normalize_path(c[n].key), val |-> c[n].val,
                      ens |-> <<>>, res |-> Ok(<<>>, None)]]

Goto(n, label) == pc' = [pc EXCEPT ![n] = label]

\* the call of node n ends raising err
Fail(n, err) ==
    /\ Goto(n, "done")
    /\ last' = [last EXCEPT ![n].res = Raise(<<>>, err)]
    /\ UNCHANGED fs

\* where the call goes on once its directory portion is ensured
AfterEnsure(n) == IF last[n].op = "mkdir" THEN "m_mkdir" ELSE "w_open"

\* _ensure_directory_exists is entered for dir_part, or skipped when it is empty
Ensure(n, dir_part) ==
    IF dir_part # <<>>
    THEN Goto(n, "e_stat") /\ last' = [last EXCEPT ![n].ens = <<dir_part>>]
    ELSE Goto(n, AfterEnsure(n)) /\ UNCHANGED last

\* the innermost _ensure_directory_exists returns True: its caller makes its own
\* directory next, or the call goes on
EnsureReturn(n) ==
    LET rest == SubSeq(last[n].ens, 1, Len(last[n].ens) - 1)
    IN /\ last' = [last EXCEPT ![n].ens = rest]
       /\ Goto(n, IF rest = <<>> THEN AfterEnsure(n) ELSE "e_mkdir")

\* mkdir: if self._path_exists(path)
MkExists(n) ==
    /\ pc[n] = "start" /\ last[n].op = "mkdir"
    /\ IF _path_exists(RaceConfig, fs, last[n].path)
       THEN Goto(n, "m_isdir") /\ UNCHANGED last
       ELSE Ensure(n, split_path(last[n].path)[1])
    /\ UNCHANGED fs

\* mkdir: if self._is_dir(path), on a path that exists (exist_ok is False)
MkIsDir(n) ==
    /\ pc[n] = "m_isdir"
    /\ IF _is_dir(RaceConfig, fs, last[n].path)
       THEN Fail(n, KeyError("Directory already exists"))
       ELSE Fail(n, KeyError("Path exists but is not a directory"))

\* _ensure_directory_exists: self._sftp.stat(dir_path)
EnsureStat(n) ==
    LET dir_path == last[n].ens[Len(last[n].ens)]
        parent_dir == split_path(dir_path)[1]
    IN /\ pc[n] = "e_stat"
       /\ UNCHANGED fs
       /\ IF Stat(RaceConfig, fs, dir_path) # "none"
          THEN Goto(n, "e_isdir") /\ UNCHANGED last
          ELSE IF parent_dir # <<>>
          THEN Goto(n, "e_stat") /\ last' = [last EXCEPT ![n].ens = Append(@, parent_dir)]
          ELSE Goto(n, "e_mkdir") /\ UNCHANGED last

\* _ensure_directory_exists: if self._is_dir(dir_path)
EnsureIsDir(n) ==
    /\ pc[n] = "e_isdir"
    /\ IF _is_dir(RaceConfig, fs, last[n].ens[Len(last[n].ens)])
       THEN EnsureReturn(n) /\ UNCHANGED fs
       ELSE Fail(n, KeyError("Path exists but is not a directory"))

\* _ensure_directory_exists: self._sftp.mkdir(dir_path)
EnsureMkdir(n) ==
    LET made == SftpMkdir(RaceConfig, fs, last[n].ens[Len(last[n].ens)])
    IN /\ pc[n] = "e_mkdir"
       /\ IF made.ok
          THEN EnsureReturn(n) /\ fs' = made.fs
          ELSE Fail(n, KeyError("Failed to create directory"))

\* mkdir: self._sftp.mkdir(path)
MkMkdir(n) ==
    LET made == SftpMkdir(RaceConfig, fs, last[n].path)
    IN /\ pc[n] = "m_mkdir"
       /\ IF made.ok
          THEN Goto(n, "m_return") /\ fs' = made.fs /\ UNCHANGED last
          ELSE Fail(n, KeyError("Failed to create directory"))

\* mkdir: return self[path]
MkReturn(n) ==
    /\ pc[n] = "m_return"
    /\ Goto(n, "done")
    /\ last' = [last EXCEPT ![n].res = [getitem(RaceConfig, fs, last[n].path) EXCEPT !.fs = <<>>]]
    /\ UNCHANGED fs

\* __setitem__ up to its first remote request: the depth and type checks pass
WrStart(n) ==
    /\ pc[n] = "start" /\ last[n].op = "write"
    /\ Ensure(n, split_path(last[n].path)[1])
    /\ UNCHANGED fs

\* __setitem__: with self._sftp.file(path, "wb") as f
WrOpen(n) ==
    LET w == SftpOpenW(RaceConfig, fs, last[n].path)
    IN /\ pc[n] = "w_open"
       /\ IF w.ok
          THEN Goto(n, "w_flush") /\ fs' = w.fs /\ UNCHANGED last
          ELSE Fail(n, KeyError("Error writing to file"))

\* __setitem__: f.write(v) and the close of the file
WrFlush(n) ==
    /\ pc[n] = "w_flush"
    /\ Goto(n, "done")
    /\ fs' = SftpFlush(RaceConfig, fs, last[n].path, last[n].val)
    /\ UNCHANGED last

RaceNext ==
    \E n \in Nodes :
        \/ MkExists(n) \/ MkIsDir(n) \/ MkMkdir(n) \/ MkReturn(n)
        \/ EnsureStat(n) \/ EnsureIsDir(n) \/ EnsureMkdir(n)
        \/ WrStart(n) \/ WrOpen(n) \/ WrFlush(n)

RaceSpec == RaceInit /\ [][RaceNext]_vars

(***************************************************************************)
(* What the claims speak of.                                               *)
(***************************************************************************)
\* the number of separators in the normalized key
KeyDepth(k) == Count(normalize_path(k), SLASH)

\* the entry of the tree a key names, from the node's root
KeyEntry(k) == Segs(Replace(k, BACKSLASH, SLASH))

KeyIsHidden(k) == \E i \in 1..Len(KeyEntry(k)) : IsHiddenName(KeyEntry(k)[i])

WithinLevels(cfg, k) == cfg.max_levels = None \/ KeyDepth(k) <= cfg.max_levels[1]

SeqSet(s) == {s[i] : i \in 1..Len(s)}

Called(op) == pc = "done" /\ last.op = op

\* C1: after a successful write(k, v), lookup(k) on the same node returns exactly v
\* (the bytes themselves with encoding unset, the same text with encoding set),
\* whatever the key held before.
C1_ReadAfterWrite ==
    (Called("write") /\ last.res.ok) =>
        LET r == getitem(last.cfg, fs, last.key)
        IN r.ok /\ r.value = last.val

\* a text was written over a file that held other bytes
C1_Witness ==
    /\ Called("write") /\ last.res.ok
    /\ last.val.t = "str"
    /\ KindAt(last.pre, KeyEntry(last.key)) = "f"
    /\ last.pre[KeyEntry(last.key)].data = <<97>>
    /\ fs[KeyEntry(last.key)].data # <<97>>

EmptyStore(tree) == DOMAIN tree = {}

\* C2 (as amended): after a successful write of a non-hidden key k, contains(k) is
\* true and the normalized form of k (k itself when k is already normalized) is
\* among the keys iterate() yields; from an empty store and for a single-segment
\* k, iterate() yields exactly that one key and lookup(k) returns v.
C2_VisibleAfterWrite ==
    (Called("write") /\ last.res.ok /\ ~KeyIsHidden(last.key)) =>
        LET c == contains(last.cfg, fs, last.key)
            keys == iter(last.cfg, fs)
            r == getitem(last.cfg, fs, last.key)
        IN /\ c.ok /\ c.value = TRUE
           /\ InSeq(normalize_path(last.key), keys)
           /\ (EmptyStore(last.pre) /\ KeyDepth(last.key) = 0) =>
                  /\ keys = <<normalize_path(last.key)>>
                  /\ r.ok /\ r.value = last.val

\* a single-segment key written into the empty store
C2_Witness ==
    /\ Called("write") /\ last.res.ok /\ ~KeyIsHidden(last.key)
    /\ EmptyStore(last.pre) /\ KeyDepth(last.key) = 0

\* C2 as stated: the key as the caller wrote it is among the keys iterate() yields.
C2_Original ==
    (Called("write") /\ last.res.ok /\ ~KeyIsHidden(last.key)) =>
        /\ contains(last.cfg, fs, last.key).value = TRUE
        /\ InSeq(last.key, iter(last.cfg, fs))

DepthMsg == "Path depth exceeds maximum allowed depth"

\* C3 as stated: with max_levels an integer L, lookup and write fail with the depth
\* error reporting (d, L) if and only if d, the separator count of the normalized
\* key, exceeds L, and then touch nothing; with max_levels None no key is rejected
\* for depth.
C3_DepthGate ==
    (pc = "done" /\ last.op \in {"lookup", "write"}) =>
        IF last.cfg.max_levels = None
        THEN last.res.err.msg # DepthMsg
        ELSE /\ (last.res.err = DepthError(KeyDepth(last.key), last.cfg.max_levels[1]))
                    <=> (KeyDepth(last.key) > last.cfg.max_levels[1])
             /\ last.res.err.msg = DepthMsg => (~last.res.ok /\ fs = last.pre)

K_a == <<"a">>

K_ab == <<"a", SLASH, "b">>

K_abc == <<"a", SLASH, "b", SLASH, "c">>

\* the lookup has something to return: a directory the node may enter, or a file
\* whose bytes the node can decode
Readable(cfg, tree, k) ==
    \/ KindAt(tree, KeyEntry(k)) = "d" /\ cfg.dir_access
    \/ /\ KindAt(tree, KeyEntry(k)) = "f"
       /\ (Encoding(cfg) = None \/ Utf8Decode(tree[KeyEntry(k)].data).ok)

\* C4 (as amended): with max_levels = 1, lookup("a/b/c") fails reporting depth 2
\* and limit 1; lookup("a/b") counts as depth 1 and lookup("a") as depth 0, neither
\* is rejected for depth, and each succeeds when the path is there to be read.
C4_DepthCounts ==
    (Called("lookup") /\ last.cfg.max_levels = Some(1)) =>
        /\ last.key = K_abc => (~last.res.ok /\ last.res.err = DepthError(2, 1))
        /\ last.key \in {K_ab, K_a} =>
              /\ last.res.err.msg # DepthMsg
              /\ Readable(last.cfg, last.pre, last.key) => last.res.ok

\* lookup("a/b") succeeded under max_levels = 1
C4_Witness ==
    /\ Called("lookup") /\ last.cfg.max_levels = Some(1)
    /\ last.key = K_ab /\ last.res.ok

\* C4 as stated: depths are reported as 3 for "a/b/c" and 2 for "a/b", and both fail.
C4_Original ==
    (Called("lookup") /\ last.cfg.max_levels = Some(1)) =>
        /\ last.key = K_abc => (~last.res.ok /\ last.res.err = DepthError(3, 1))
        /\ last.key = K_ab => (~last.res.ok /\ last.res.err = DepthError(2, 1))
        /\ (last.key = K_a /\ Readable(last.cfg, last.pre, last.key)) => last.res.ok

\* normalizing the key once more changes nothing
KeyIsStable(k) == normalize_path(normalize_path(k)) = normalize_path(k)

\* C5 as stated (on keys that normalize in one step): delete(k) and
\* makeDirectory(k) with depth(k) > max_levels fail and leave the remote tree
\* unchanged.
C5_DepthGateOnDeleteAndMkdir ==
    (/\ pc = "done" /\ last.op \in {"delete", "mkdir"}
     /\ KeyIsStable(last.key) /\ ~WithinLevels(last.cfg, last.key)) =>
        (~last.res.ok /\ fs = last.pre)

\* C6 as stated: for an over-deep key contains returns false without raising when
\* strict_contains is false and fails with the depth error (d, L) when it is true;
\* contains never raises otherwise.
C6_ContainsOverDeep ==
    Called("contains") =>
        IF WithinLevels(last.cfg, last.key) THEN last.res.ok
        ELSE IF last.cfg.strict_contains
        THEN ~last.res.ok
             /\ last.res.err = DepthError(KeyDepth(last.key), last.cfg.max_levels[1])
        ELSE last.res.ok /\ last.res.value = FALSE

\* C7: for a key within the depth limit contains(k) is true exactly when the path
\* exists in the tree, file or directory, whatever include_hidden,
\* include_directories and dir_access are; and a hidden entry or a directory that
\* iteration suppresses is still reachable by lookup.
C7_ContainsIsExistence ==
    /\ (Called("contains") /\ WithinLevels(last.cfg, last.key)) =>
          /\ last.res.ok
          /\ last.res.value = (KindAt(last.pre, KeyEntry(last.key)) # "none")
    /\ (/\ Called("lookup") /\ WithinLevels(last.cfg, last.key)
        /\ Readable(last.cfg, last.pre, last.key)
        /\ \/ KeyIsHidden(last.key) /\ ~last.cfg.include_hidden
           \/ /\ KindAt(last.pre, KeyEntry(last.key)) = "d"
              /\ ~last.cfg.include_directories)
          => last.res.ok

\* contains found a hidden entry on a node that hides hidden entries and directories
C7_Witness ==
    /\ Called("contains") /\ WithinLevels(last.cfg, last.key)
    /\ KeyIsHidden(last.key) /\ ~last.cfg.include_hidden /\ ~last.cfg.dir_access
    /\ KeyDepth(last.key) = 1
    /\ last.res.ok /\ last.res.value = TRUE

\* an entry iteration does not filter out as hidden: with the per-call listing
\* (max_levels = 0) and with the bulk query alike, no name on its path is hidden
Visible(cfg, p) == cfg.include_hidden \/ \A i \in 1..Len(p) : ~IsHiddenName(p[i])

\* an entry at most max_levels directory levels below the root
InLevels(cfg, p) == cfg.max_levels = None \/ Len(p) <= cfg.max_levels[1] + 1

\* the key of an entry: its path, with a trailing slash for a directory
EntryKey(tree, p) == IF tree[p].kind = "d" THEN Append(PathStr(p), SLASH) ELSE PathStr(p)

Listed(cfg, tree) ==
    {p \in DOMAIN tree : /\ Visible(cfg, p) /\ InLevels(cfg, p)
                         /\ tree[p].kind = "d" => cfg.include_directories}

StripSlash(key) == IF EndsWith(key, SLASH) THEN SubSeq(key, 1, Len(key) - 1) ELSE key

\* C8: iterate() yields, once each, exactly the entries (that the hidden and
\* directory filters let through) lying at most max_levels directory levels below
\* the root: the direct children alone for 0, with no inner separator in any key;
\* nothing deeper than N for N > 0; the whole subtree for None.
C8_IterationBounded ==
    Called("iterate") =>
        /\ SeqSet(last.res.value) = {EntryKey(last.pre, p) : p \in Listed(last.cfg, last.pre)}
        /\ Len(last.res.value) = Cardinality(Listed(last.cfg, last.pre))
        /\ last.cfg.max_levels = Some(0) =>
              \A i \in 1..Len(last.res.value) : ~HasChar(StripSlash(last.res.value[i]), SLASH)

\* an iteration one level deep over a tree that goes deeper
C8_Witness ==
    /\ Called("iterate") /\ last.cfg.max_levels = Some(1)
    /\ K_abc \in SeqSet(iter([last.cfg EXCEPT !.max_levels = None], last.pre))
    /\ K_ab \o <<SLASH>> \in SeqSet(last.res.value)
    /\ K_abc \notin SeqSet(last.res.value)

\* C9: with include_directories false iterate() yields no key ending in "/" at any
\* max_levels, still yields the files inside the directories (within the depth
\* limit), and lookup of a directory still returns a child node.
C9_NoDirectoryKeys ==
    /\ (Called("iterate") /\ ~last.cfg.include_directories) =>
          /\ \A i \in 1..Len(last.res.value) : ~EndsWith(last.res.value[i], SLASH)
          /\ \A p \in DOMAIN last.pre :
                (/\ last.pre[p].kind = "f" /\ Visible(last.cfg, p)
                 /\ InLevels(last.cfg, p)) => PathStr(p) \in SeqSet(last.res.value)
    /\ (/\ Called("lookup") /\ ~last.cfg.include_directories /\ last.cfg.dir_access
        /\ WithinLevels(last.cfg, last.key)
        /\ KindAt(last.pre, KeyEntry(last.key)) = "d") =>
          /\ last.res.ok /\ last.res.value.t = "node"
          /\ last.res.value.d.rootdir = normalize_path(last.key)

\* the file a/b is yielded though its directory a/ is not
C9_Witness ==
    /\ Called("iterate") /\ ~last.cfg.include_directories
    /\ KindAt(last.pre, <<K_a>>) = "d"
    /\ K_ab \in SeqSet(last.res.value)

DirAccessError == KeyError("Directory access is disabled")

JoinedRoot(rootdir, key) ==
    IF rootdir = <<DOT>> THEN key ELSE JoinSlash(StripSlash(rootdir), key)

\* the lookup found a directory the node may enter
DirectoryLookup ==
    /\ pc = "done" /\ last.op \in {"lookup", "lookup_from"} /\ last.cfg.dir_access /\ WithinLevels(last.cfg, last.key)
    /\ KeyIsStable(last.key)
    /\ KindAt(last.pre, Base(last.cfg, last.pre) \o KeyEntry(last.key)) = "d"

AtLeast(m, l) == m = None \/ (l # None /\ m[1] >= l[1])

\* C12: on an unchanging tree length() equals the number of keys iterate() yields,
\* for every max_levels, include_hidden and include_directories; and a node with
\* a larger or unlimited max_levels never reports a smaller length.
C12_LengthIsIterCount ==
    Called("length") =>
        /\ last.res.value = Len(iter(last.cfg, last.pre))
        /\ \A m \in MaxLevels :
              AtLeast(m, last.cfg.max_levels) =>
                  len([last.cfg EXCEPT !.max_levels = m], last.pre) >= last.res.value

\* a one-level count that leaves out a hidden entry and a deeper one
C12_Witness ==
    /\ Called("length") /\ last.cfg.max_levels = Some(1) /\ ~last.cfg.include_hidden
    /\ last.cfg.rootdir = <<DOT>>
    /\ last.res.value >= 2
    /\ last.res.value < len([last.cfg EXCEPT !.max_levels = None], last.pre)
    /\ last.res.value < len([last.cfg EXCEPT !.include_hidden = TRUE], last.pre)

\* a text for a node without encoding, or bytes for a node with one
WrongKind(cfg, v) ==
    \/ Encoding(cfg) = None /\ v.t = "str"
    \/ Encoding(cfg) # None /\ v.t = "bytes"

IsTypeError(err) == err.exc = "TypeError"

Ancestors(p) == {SubSeq(p, 1, n) : n \in 1..(Len(p) - 1)}

\* a write of a value of the right kind to a multi-segment key within the depth
\* limit, on a node of root "."
NestedWrite ==
    /\ Called("write") /\ ~WrongKind(last.cfg, last.val)
    /\ KeyIsStable(last.key) /\ KeyDepth(last.key) >= 1
    /\ WithinLevels(last.cfg, last.key)

\* every ancestor of the key is missing or a directory
AncestorsClear(tree, k) == \A p \in Ancestors(KeyEntry(k)) : KindAt(tree, p) # "f"

\* what iterate() yields with unlimited depth and include_directories true, on a
\* node that shows hidden entries
AllKeys(cfg, tree) ==
    SeqSet(iter([cfg EXCEPT !.max_levels = None, !.include_directories = TRUE,
                     !.include_hidden = TRUE], tree))

\* the same on a node that hides hidden entries
AllVisibleKeys(cfg, tree) ==
    SeqSet(iter([cfg EXCEPT !.max_levels = None, !.include_directories = TRUE,
                     !.include_hidden = FALSE], tree))

DirPortion(k) == split_path(normalize_path(k))[1]

MissingDirectoryError == KeyError("Directory does not exist and create_dirs=False")

\* a write of a value of the right kind to a key with a directory portion
WriteBelow ==
    /\ Called("write") /\ ~WrongKind(last.cfg, last.val)
    /\ DirPortion(last.key) # <<>>

PathConflictError == KeyError("Path exists but is not a directory")

\* a write that passes the depth and value checks, or a makeDirectory, whose key
\* has an ancestor that is a file
AncestorConflict ==
    /\ pc = "done"
    /\ \/ last.op = "write" /\ ~WrongKind(last.cfg, last.val)
                            /\ WithinLevels(last.cfg, last.key)
       \/ last.op = "mkdir"
    /\ ~AncestorsClear(last.pre, last.key)

\* C16 (as amended): a write or makeDirectory whose key has an ancestor that is
\* not a directory fails and creates nothing, the conflicting file keeping its
\* content; the error is the path-conflict error when create_dirs is true or the
\* conflicting ancestor is the key's parent, and the missing-directory error when
\* create_dirs is false and the conflict lies above the parent.
C16_PathConflict ==
    AncestorConflict =>
        /\ ~last.res.ok /\ fs = last.pre
        /\ IF last.cfg.create_dirs \/ KindAt(last.pre, Parent(KeyEntry(last.key))) = "f"
           THEN last.res.err = PathConflictError
           ELSE last.res.err = MissingDirectoryError

\* a/b/c refused with create_dirs true because a is a file
C16_Witness ==
    /\ AncestorConflict /\ last.cfg.create_dirs
    /\ last.key = K_abc /\ KindAt(last.pre, <<K_a>>) = "f"
    /\ last.res.err = PathConflictError /\ fs = last.pre

\* C16 as stated: the path-conflict error whether create_dirs is true or false.
C16_Original ==
    AncestorConflict => (~last.res.ok /\ last.res.err = PathConflictError /\ fs = last.pre)

NonEmptyDirectoryError == KeyError("Cannot delete non-empty directory")

\* C17 as stated: delete of a path that does not exist fails with a key error
\* and changes nothing; delete of a directory that has entries fails with the
\* non-empty-directory error and removes nothing; delete of a directory without
\* entries succeeds and contains(k) is then false; deleting every key of an
\* unlimited-depth iterate(), deepest first, never meets the non-empty-directory
\* error and leaves the store empty.
C17_DeleteSequences ==
    /\ Called("delete") =>
          LET e == KeyEntry(last.key)
          IN /\ KindAt(last.pre, e) = "none" =>
                   (~last.res.ok /\ last.res.err.exc = "KeyError" /\ fs = last.pre)
             /\ (KindAt(last.pre, e) = "d" /\ Children(last.pre, e) # <<>>) =>
                   (~last.res.ok /\ last.res.err = NonEmptyDirectoryError /\ fs = last.pre)
             /\ (e # <<>> /\ KindAt(last.pre, e) = "d" /\ Children(last.pre, e) = <<>>) =>
                   /\ last.res.ok
                   /\ contains([last.cfg EXCEPT !.max_levels = None], fs, last.key).value = FALSE
    /\ Called("empty") =>
          /\ last.res.err # NonEmptyDirectoryError
          /\ iter(last.cfg, fs) = <<>>

\* C18 as stated: delete of a directory that has any entry at all fails with the
\* non-empty-directory error, also when the entries are all hidden and the node
\* has include_hidden false: the outcome is the same for both settings of
\* include_hidden.
C18_NonEmptyWhateverHidden ==
    (/\ Called("delete")
     /\ KindAt(last.pre, KeyEntry(last.key)) = "d"
     /\ Children(last.pre, KeyEntry(last.key)) # <<>>) =>
        /\ ~last.res.ok /\ last.res.err = NonEmptyDirectoryError
        /\ last.res = delitem([last.cfg EXCEPT !.include_hidden = ~last.cfg.include_hidden],
                              last.pre, last.key)

AlreadyExistsError == KeyError("Directory already exists")

\* C19: makeDirectory fails with the already-exists error when the path is a
\* directory and exist_ok is false, with the path-conflict error when the path
\* exists and is not a directory (whatever exist_ok), with the missing-directory
\* error when the parent is missing and create_dirs is false, each time leaving
\* the tree unchanged; with exist_ok true on an existing directory it creates
\* nothing and the directory keeps its contents.
C19_MkdirErrors ==
    Called("mkdir") =>
        LET e == KeyEntry(last.key)
        IN /\ (e # <<>> /\ KindAt(last.pre, e) = "d" /\ ~last.exist_ok) =>
                 (~last.res.ok /\ last.res.err = AlreadyExistsError /\ fs = last.pre)
           /\ KindAt(last.pre, e) = "f" =>
                 (~last.res.ok /\ last.res.err = PathConflictError /\ fs = last.pre)
           /\ (/\ Len(e) >= 2 /\ KindAt(last.pre, e) = "none"
               /\ KindAt(last.pre, Parent(e)) = "none" /\ ~last.cfg.create_dirs) =>
                 (~last.res.ok /\ last.res.err = MissingDirectoryError /\ fs = last.pre)
           /\ (e # <<>> /\ KindAt(last.pre, e) = "d" /\ last.exist_ok) =>
                 (fs = last.pre /\ last.res.err # AlreadyExistsError)

\* makeDirectory("a/b") refused where a/b is a directory that holds a file
C19_Witness ==
    /\ Called("mkdir") /\ ~last.exist_ok /\ last.key = K_ab
    /\ KindAt(last.pre, KeyEntry(K_abc)) = "f"
    /\ last.res.err = AlreadyExistsError /\ fs = last.pre

\* C20 as stated: whenever makeDirectory creates the directory it returns a child
\* node rooted at it, for every configuration of the node; it never creates the
\* directory and then fails.
C20_MkdirReturnsChild ==
    (/\ Called("mkdir")
     /\ KindAt(last.pre, KeyEntry(last.key)) = "none"
     /\ KindAt(fs, KeyEntry(last.key)) = "d") =>
        /\ last.res.ok /\ last.res.value.t = "node"
        /\ last.res.value.d.rootdir = normalize_path(last.key)

\* C21 as stated: normalize(normalize(p)) = normalize(p) for every p, and
\* normalize("") = normalize(".") = "".
C21_NormalizeIdempotent ==
    /\ (pc = "done" /\ last.op = "normalize") =>
          normalize_path(last.res.value) = last.res.value
    /\ normalize_path(<<>>) = <<>>
    /\ normalize_path(<<DOT>>) = <<>>

\* the node SshFiles(encoding="utf-8") or SshFilesReader(encoding="utf-8") with
\* the rest of the configuration of cfg
WithUtf8(cfg) == [cfg EXCEPT !.encoding = Some("utf-8")]

\* C22 as stated: a text class node built without an encoding has effective
\* encoding "utf-8": its lookup returns what the node with encoding "utf-8"
\* returns (decoded text, or a child node that is in text mode too), and its write
\* accepts and rejects what that node accepts and rejects.
C22_TextClassesDefault ==
    /\ (pc = "done" /\ last.op \in {"lookup_text", "write_text"}) =>
          Encoding(last.cfg) = Some("utf-8")
    /\ Called("lookup_text") =>
          LET r == getitem(WithUtf8(last.cfg), last.pre, last.key)
          IN /\ last.res.ok = r.ok /\ last.res.err = r.err
             /\ IF last.res.ok /\ last.res.value.t = "node"
                THEN Encoding(last.res.value.d) = Some("utf-8")
                ELSE last.res.value = r.value
    /\ Called("write_text") =>
          last.res = setitem(WithUtf8(last.cfg), last.pre, last.key, last.val)

\* both calls are over
RaceOver == \A n \in Nodes : pc[n] = "done"

\* C23 as stated: in every interleaving of two calls that create the same
\* missing directory, each call succeeds or fails with the already-exists or the
\* path-conflict error, never with another; and when both write the same key the
\* final content is exactly one of the two values written.
C23_RaceOutcomes ==
    /\ \A n \in Nodes :
          pc[n] = "done" =>
              \/ last[n].res.ok
              \/ last[n].res.err \in {AlreadyExistsError, PathConflictError}
    /\ (/\ RaceOver
        /\ \A n \in Nodes : last[n].op = "write" /\ last[n].path = last[1].path) =>
          /\ KindAt(fs, Segs(last[1].path)) = "f"
          /\ fs[Segs(last[1].path)].data \in {last[n].val : n \in Nodes}

\* the entries at most max_levels directory levels below the root, hidden or not,
\* that the directory filter lets through
ListedWithHidden(cfg, tree) == Listed([cfg EXCEPT !.include_hidden = TRUE], tree)

\* C25: with include_hidden false, iterate() yields no key with a path segment
\* starting with "." and length() counts no entry with one, at max_levels 0 (the
\* listing) and at max_levels > 0 or None (the bulk query) alike: the hidden
\* entries and everything beneath a hidden directory are left out and nothing
\* else is; with include_hidden true both include them.
C25_HiddenPruning ==
    /\ Called("iterate") =>
          /\ ~last.cfg.include_hidden =>
                /\ \A i \in 1..Len(last.res.value) : ~KeyIsHidden(last.res.value[i])
                /\ SeqSet(last.res.value) =
                      {EntryKey(last.pre, p) : p \in
                          {q \in ListedWithHidden(last.cfg, last.pre) :
                              \A i \in 1..Len(q) : ~IsHiddenName(q[i])}}
          /\ last.cfg.include_hidden =>
                SeqSet(last.res.value) =
                    {EntryKey(last.pre, p) : p \in ListedWithHidden(last.cfg, last.pre)}
    /\ (Called("length") /\ last.cfg.rootdir = <<DOT>>) =>
          /\ ~last.cfg.include_hidden =>
                last.res.value = Cardinality(
                    {q \in ListedWithHidden(last.cfg, last.pre) :
                        \A i \in 1..Len(q) : ~IsHiddenName(q[i])})
          /\ last.cfg.include_hidden =>
                last.res.value = Cardinality(ListedWithHidden(last.cfg, last.pre))

\* a bulk iteration that hides hidden entries, over a tree with a file beneath
\* the hidden directory .h and a hidden file in the directory a
C25_Witness ==
    /\ Called("iterate") /\ ~last.cfg.include_hidden /\ last.cfg.max_levels = None
    /\ KindAt(last.pre, <<<<DOT, "h">>, <<"a">>>>) = "f"
    /\ KindAt(last.pre, <<K_a, <<DOT, "h">>>>) = "f"
    /\ K_a \o <<SLASH>> \in SeqSet(last.res.value)
    /\ <<DOT, "h", SLASH, "a">> \in
          SeqSet(iter([last.cfg EXCEPT !.include_hidden = TRUE], last.pre))

\* the directories of the tree
Directories(tree) == {p \in DOMAIN tree : tree[p].kind = "d"}

C27_IterationAgreesOnDepth ==
    Called("iterate") =>
        /\ Cardinality(SeqSet(last.res.value)) = Len(last.res.value)
        /\ \A i \in 1..Len(last.res.value) :
              LET key == last.res.value[i]
              IN /\ last.cfg.max_levels # None =>
                       Count(StripSlash(key), SLASH) <= last.cfg.max_levels[1]
                 /\ \A sc \in BOOLEAN :
                       LET c == contains([last.cfg EXCEPT !.strict_contains = sc],
                                         last.pre, key)
                       IN c.ok /\ c.value = TRUE
                 /\ getitem(last.cfg, last.pre, key).err.msg # DepthMsg

\* an iteration one level deep that yields the directory key a/b/ of a tree
\* going one level deeper
C27_Witness ==
    /\ Called("iterate") /\ last.cfg.max_levels = Some(1)
    /\ KindAt(last.pre, KeyEntry(K_abc)) = "f"
    /\ K_ab \o <<SLASH>> \in SeqSet(last.res.value)
    /\ contains([last.cfg EXCEPT !.strict_contains = TRUE], last.pre, K_ab \o <<SLASH>>).value = TRUE
    /\ getitem([last.cfg EXCEPT !.dir_access = TRUE], last.pre, K_ab \o <<SLASH>>).ok

\* C28: the node lookup(d) returns has its parent's max_levels and counts the
\* depth of a key from its own root: where d/j is a file deeper than the parent's
\* max_levels, so that the parent refuses lookup(d/j) for depth, while d and j are
\* each within max_levels, lookup(d).lookup(j) gives what the node of unlimited
\* depth gives for lookup(d/j), the content of the file whenever it can be read.
C28_DepthRelativeToRoot ==
    Called("lookup_chained") =>
        LET d == last.key[1]
            j == last.key[2]
            dj == JoinSlash(d, j)
            child == getitem(last.cfg, last.pre, d).value.d
            far == getitem([last.cfg EXCEPT !.max_levels = None], last.pre, dj)
        IN /\ child.max_levels = last.cfg.max_levels
           /\ child.rootdir = d
           /\ (/\ KindAt(last.pre, KeyEntry(dj)) = "f"
               /\ ~WithinLevels(last.cfg, dj)
               /\ WithinLevels(last.cfg, d) /\ WithinLevels(last.cfg, j)) =>
                 /\ getitem(last.cfg, last.pre, dj).err.msg = DepthMsg
                 /\ last.res.ok = far.ok /\ last.res.value = far.value
                 /\ Readable(last.cfg, last.pre, dj) =>
                       /\ last.res.ok
                       /\ last.cfg.encoding = None =>
                             last.res.value = Bytes(last.pre[KeyEntry(dj)].data)

\* with max_levels 1 the file a/b/c, two levels down, read as node["a"]["b/c"]
C28_Witness ==
    /\ Called("lookup_chained") /\ last.cfg.max_levels = Some(1)
    /\ last.key = <<K_a, <<"b", SLASH, "c">>>>
    /\ KindAt(last.pre, KeyEntry(K_abc)) = "f"
    /\ getitem(last.cfg, last.pre, K_abc).err.msg = DepthMsg
    /\ last.res.ok /\ last.res.value.t = "bytes"

\* the kind of the remote request the call always makes first, once its key has
\* passed the checks made locally: lookup stats the path, delete and mkdir run
\* the existence test, write stats the directory portion of a nested key and
\* opens the file of a flat one
FirstRequest ==
    IF last.op = "lookup_down" THEN "stat"
    ELSE IF last.op \in {"delete_down", "mkdir_down"} THEN "exec"
    ELSE IF HasChar(normalize_path(last.key), SLASH) THEN "stat"
    ELSE "write"

FirstRequestFailed ==
    /\ pc = "done"
    /\ last.op \in {"lookup_down", "write_down", "delete_down", "mkdir_down"}
    /\ FirstRequest \in last.cfg.down

Healthy(cfg) == [cfg EXCEPT !.down = {}]

\* C24: when requests of the session fail, iterate() does not raise and yields
\* nothing but keys the healthy iteration yields, at every max_levels; a lookup,
\* write, delete or mkdir one of whose requests failed raises a key error
C24_OnlyEnumerationSwallows ==
    /\ Called("iterate_down") =>
           /\ last.res.ok
           /\ SeqSet(last.res.value) \subseteq SeqSet(iter(Healthy(last.cfg), last.pre))
    /\ FirstRequestFailed =>
           /\ ~last.res.ok
           /\ last.res.err.exc = "KeyError"

====
